---- MODULE Spec2Model ----
(***************************************************************************)
(* Workout CLI (src/workout.py): one Markdown file, workout_log.md, holds  *)
(* the registry of actions, the goals and the dated tables of records.     *)
(*                                                                         *)
(* Text is modelled character by character.  A character is a TLA+ string  *)
(* (each CJK character of the source is written as its pinyin, e.g. "ke"   *)
(* for U+53EF), a line is a sequence of characters, and the file content   *)
(* is the sequence of its lines, i.e. content.split("\n"): the content is  *)
(* the lines joined by "\n", so a content ending in "\n" has an empty last *)
(* line.                                                                   *)
(***************************************************************************)
EXTENDS Integers, Sequences, FiniteSets, TLC

VARIABLES doc, prev, cmd, out, steps,
          pdoc, pres, ppc,
          file, pc, arg, actions, content, exit

vars == <<doc, prev, cmd, out, steps>>
parseVars == <<pdoc, pres, ppc>>
raceVars == <<file, pc, arg, actions, content, exit>>
allVars == <<doc, prev, cmd, out, steps, pdoc, pres, ppc, file, pc, arg, actions, content, exit>>

(***************************************************************************)
(* Bounds of the model.                                                    *)
(***************************************************************************)
\* successful writes (action add, record) in one behaviour
MaxCmds == 3
\* lines of a document handed to get_actions in SpecParse
MaxDocLines == 5

(***************************************************************************)
(* str methods used by the source.                                         *)
(***************************************************************************)
Min(S) == CHOOSE x \in S : \A y \in S : x <= y
Max(S) == CHOOSE x \in S : \A y \in S : x >= y

\* characters str.strip() removes and \s matches (inside one line)
WS == {" ", "\t"}

\* the end of the run of characters of the class C that starts at p
RECURSIVE RunEnd(_, _, _)
RunEnd(s, p, C) == IF p <= Len(s) /\ s[p] \in C THEN RunEnd(s, p + 1, C) ELSE p

\* the start of the run of characters of the class C that ends at p
RECURSIVE RunStart(_, _, _)
RunStart(s, p, C) == IF p >= 1 /\ s[p] \in C THEN RunStart(s, p - 1, C) ELSE p

\* s.strip()
Strip(s) == SubSeq(s, RunEnd(s, 1, WS), RunStart(s, Len(s), WS))

\* s.startswith(p)
StartsWith(s, p) == Len(s) >= Len(p) /\ \A k \in 1..Len(p) : s[k] = p[k]

\* s ends with p (the text before a "\n" of the content)
EndsWith(s, p) == Len(s) >= Len(p) /\ \A k \in 1..Len(p) : s[Len(s) - Len(p) + k] = p[k]

\* p in s
Contains(s, p) == \E i \in 1..(Len(s) - Len(p) + 1) : \A k \in 1..Len(p) : s[i + k - 1] = p[k]

\* p in content, for a p without "\n": p lies inside one line
ContentContains(c, p) == \E k \in 1..Len(c) : Contains(c[k], p)

LowerMap ==
    [A |-> "a", B |-> "b", C |-> "c", D |-> "d", E |-> "e", F |-> "f", G |-> "g",
     H |-> "h", I |-> "i", J |-> "j", K |-> "k", L |-> "l", M |-> "m", N |-> "n",
     O |-> "o", P |-> "p", Q |-> "q", R |-> "r", S |-> "s", T |-> "t", U |-> "u",
     V |-> "v", W |-> "w", X |-> "x", Y |-> "y", Z |-> "z"]

Uppers == DOMAIN LowerMap

\* s.lower()
Lower(s) == [i \in 1..Len(s) |-> IF s[i] \in Uppers THEN LowerMap[s[i]] ELSE s[i]]

Digits == <<"0", "1", "2", "3", "4", "5", "6", "7", "8", "9">>
DigitSet == {Digits[i] : i \in 1..10}
DigitValue(ch) == (CHOOSE i \in 1..10 : Digits[i] = ch) - 1

\* str(n) of an int n >= 0
RECURSIVE FormatInt(_)
FormatInt(n) == IF n < 10 THEN <<Digits[n + 1]>> ELSE FormatInt(n \div 10) \o <<Digits[(n % 10) + 1]>>

\* int(s) of a string of digits
RECURSIVE ParseInt(_)
ParseInt(s) == IF Len(s) = 0 THEN 0 ELSE 10 * ParseInt(SubSeq(s, 1, Len(s) - 1)) + DigitValue(s[Len(s)])

(***************************************************************************)
(* A float is held as its number of halves (kg = h / 2): every weight of   *)
(* the model and every product sets * reps * kg is a multiple of 0.5, which*)
(* binary floating point represents and multiplies exactly, and str()      *)
(* prints as <integer part>.0 or <integer part>.5.                         *)
(***************************************************************************)
\* str(x) of the float x = h / 2, h >= 0
FormatFloat(h) == FormatInt(h \div 2) \o <<".">> \o (IF h % 2 = 1 THEN <<"5">> ELSE <<"0">>)

\* float(w), in halves, of a string <digits>.0 or <digits>.5
ParseFloat(w) ==
    LET dot == CHOOSE i \in 1..Len(w) : w[i] = "."
    IN  2 * ParseInt(SubSeq(w, 1, dot - 1)) + (IF w[dot + 1] = "5" THEN 1 ELSE 0)

(***************************************************************************)
(* The texts of the source.                                                *)
(***************************************************************************)
TITLE_LINE ==
    <<"#", " ", "wo3", "de", "xun", "lian", "ri", "zhi">>
ACTIONS_HEADING ==
    <<"#", "#", " ", "ke", "yong", "dong", "zuo">>
GOALS_HEADING ==
    <<"#", "#", " ", "xun", "lian", "mu", "biao">>
SQUAT ==
    <<"shen", "dun", " ", "(", "S", "q", "u", "a", "t", ")">>
BENCH_PRESS ==
    <<"wo4", "tui", " ", "(", "B", "e", "n", "c", "h", " ", "P", "r", "e", "s", "s", ")">>
DEADLIFT ==
    <<"ying", "la", " ", "(", "D", "e", "a", "d", "l", "i", "f", "t", ")">>
GOAL_SQUAT ==
    <<"-", " ", "shen", "dun", ":", " ", "1", "2", "0", " ", "k", "g">>
GOAL_BENCH ==
    <<"-", " ", "wo4", "tui", ":", " ", "1", "0", "0", " ", "k", "g">>
BULLET == <<"-", " ">>

\* the content initialize_storage writes
Template ==
    << TITLE_LINE,
       <<>>,
       ACTIONS_HEADING,
       BULLET \o SQUAT,
       BULLET \o BENCH_PRESS,
       BULLET \o DEADLIFT,
       <<>>,
       GOALS_HEADING,
       GOAL_SQUAT,
       GOAL_BENCH,
       <<>>,
       <<>> >>

Dashes(n) == [i \in 1..n |-> "-"]

\* table_header, first line
TABLE_HEADER_ROW ==
    <<"|", " ", "dong", "zuo", " ", "(", "A", "c", "t", "i", "o", "n", ")", " ", "|", " ",
      "zu", "shu", " ", "(", "S", "e", "t", "s", ")", " ", "|", " ", "ci", "shu", " ", "(", "R",
      "p", "s", ")", " ", "|", " ", "zhong", "liang", " ", "(", "K", "G", ")", " ", "|", " ",
      "xun", "lian", "liang", " ", "(", "V", "o", "l", "u", "m", "e", ")", " ", "|">>

\* table_header, second line
TABLE_SEPARATOR_ROW ==
    <<"|">> \o Dashes(15) \o <<"|">> \o Dashes(13) \o <<"|">> \o Dashes(12) \o <<"|">>
        \o Dashes(11) \o <<"|">> \o Dashes(17) \o <<"|">>

(***************************************************************************)
(* get_actions: re.search(r"## <heading>\n(.+?)\n##", content, re.DOTALL). *)
(* The literal matches at the first line that ends with the heading and is *)
(* followed by "\n".  The lazy group then runs from the start of the next  *)
(* line to the end of the first line j whose successor starts with "##",   *)
(* and it must hold at least one character, so j is not an empty line      *)
(* directly after the heading.  A later start of the match can only succeed*)
(* where the first one does.                                               *)
(***************************************************************************)
\* the first line from i on that ends with the heading and is followed by "\n";
\* 0 when there is none
RECURSIVE HeadingLine(_, _)
HeadingLine(c, i) ==
    IF i >= Len(c) THEN 0
    ELSE IF EndsWith(c[i], ACTIONS_HEADING) THEN i
    ELSE HeadingLine(c, i + 1)

\* the first line from j on at which the group of the heading line i can end;
\* 0 when there is none
RECURSIVE GroupEnd(_, _, _)
GroupEnd(c, i, j) ==
    IF j >= Len(c) THEN 0
    ELSE IF StartsWith(c[j + 1], <<"#", "#">>) /\ ~(j = i + 1 /\ c[j] = <<>>) THEN j
    ELSE GroupEnd(c, i, j + 1)

IsBullet(line) == StartsWith(Strip(line), BULLET)

\* [line.strip()[2:] for line in text.split('\n') if line.strip().startswith('- ')]
BulletNames(ls) ==
    LET bl == SelectSeq(ls, IsBullet)
    IN  [k \in 1..Len(bl) |-> SubSeq(Strip(bl[k]), 3, Len(Strip(bl[k])))]

get_actions(c) ==
    LET i == HeadingLine(c, 1)
        j == GroupEnd(c, i, i + 1)
    IN  IF i = 0 \/ j = 0 THEN <<>> ELSE BulletNames(SubSeq(c, i + 1, j))

InSeq(x, s) == \E k \in 1..Len(s) : s[k] = x

(***************************************************************************)
(* action add: re.subn(r"(## <heading>\n)", rf"\1- {name}\n", content,     *)
(* count=1) puts the line "- <name>" after the first line that ends with   *)
(* the heading and is followed by "\n".  The names of the model hold no    *)
(* backslash, so the replacement template inserts them literally.          *)
(***************************************************************************)
subn_count(c) == IF HeadingLine(c, 1) = 0 THEN 0 ELSE 1

subn(c, name) ==
    LET i == HeadingLine(c, 1)
    IN  IF i = 0 THEN c
        ELSE SubSeq(c, 1, i) \o << BULLET \o name >> \o SubSeq(c, i + 1, Len(c))

(***************************************************************************)
(* record.  The model's inputs: get_today_date() is the local clock's day, *)
(* an input of the command.                                                *)
(***************************************************************************)
\* date_header = f"## {today_str}"
date_header(today) == <<"#", "#", " ">> \o today

\* new_record_row = f"| {matched_action} | {sets} | {reps} | {kg} | {volume} |"
new_record_row(matched, sets, reps, kg, volume) ==
    <<"|", " ">> \o matched \o <<" ", "|", " ">> \o FormatInt(sets) \o <<" ", "|", " ">>
        \o FormatInt(reps) \o <<" ", "|", " ">> \o FormatFloat(kg) \o <<" ", "|", " ">>
        \o FormatFloat(volume) \o <<" ", "|">>

\* Matching without the two lower(): a case-sensitive match
Matching_case_sensitive(acts, action_name) == {k \in 1..Len(acts) : Contains(acts[k], action_name)}

\* the first action with action_name.lower() in action.lower(), or none
Matching(acts, action_name) == {k \in 1..Len(acts) : Contains(Lower(acts[k]), Lower(action_name))}

(***************************************************************************)
(* The record regex                                                        *)
(*   \|\s*<name>\s*\|\s*\d+\s*\|\s*\d+\s*\|\s*([\d.]+)\s*\|                *)
(* as sets of positions: each operator maps the positions a prefix of the  *)
(* pattern can end at to those the next piece can end at, which covers     *)
(* every way the greedy pieces can give characters back.                   *)
(***************************************************************************)
\* \s*
ReWs(s, P) == UNION {p..RunEnd(s, p, WS) : p \in P}

\* a literal
ReLit(s, P, lit) ==
    {p + Len(lit) : p \in {x \in P : x + Len(lit) - 1 <= Len(s) /\ SubSeq(s, x, x + Len(lit) - 1) = lit}}

\* one or more characters of the class C
RePlus(s, P, C) == UNION {(p + 1)..RunEnd(s, p, C) : p \in P}

\* \|\s*
RePipeWs(s, P) == ReWs(s, ReLit(s, P, <<"|">>))

\* the positions where the group ([\d.]+) can start, for a match starting at i
GroupStarts(s, i, name) ==
    LET a == ReWs(s, ReLit(s, RePipeWs(s, {i}), name))
        b == ReWs(s, RePlus(s, RePipeWs(s, a), DigitSet))
        c == ReWs(s, RePlus(s, RePipeWs(s, b), DigitSet))
    IN  RePipeWs(s, c)

\* the spans <<start, end>> of the group in the matches starting at i: the
\* group is followed by \s*\|
GroupSpans(s, i, name) ==
    {sp \in UNION {{<<g, e>> : e \in (g + 1)..RunEnd(s, g, DigitSet \cup {"."})} :
                        g \in GroupStarts(s, i, name)} :
        ReLit(s, ReWs(s, {sp[2]}), <<"|">>) # {}}

\* re.findall in one line: the leftmost match from position `from`, its group,
\* and on from the end of that match
RECURSIVE FindAllFrom(_, _, _)
FindAllFrom(s, from, name) ==
    LET starts == {i \in from..Len(s) : s[i] = "|" /\ GroupSpans(s, i, name) # {}}
    IN  IF starts = {} THEN <<>>
        ELSE LET i == Min(starts)
                 \* the greedy group is the longest one
                 e == Max({sp[2] : sp \in GroupSpans(s, i, name)})
                 g == Min({sp[1] : sp \in GroupSpans(s, i, name)})
                 stop == Min(ReLit(s, ReWs(s, {e}), <<"|">>))
             IN  <<SubSeq(s, g, e - 1)>> \o FindAllFrom(s, stop, name)

(***************************************************************************)
(* re.findall over the content.  \s also matches "\n", but a match cannot  *)
(* run over a line end here: the piece after the line end would have to    *)
(* be the name or a number at the start of a line, and every line of the   *)
(* file starts with "#", "-" or "|" or is empty, which no name of the      *)
(* model starts with.                                                      *)
(***************************************************************************)
RECURSIVE FindAllLines(_, _, _)
FindAllLines(c, k, name) ==
    IF k > Len(c) THEN <<>> ELSE FindAllFrom(c[k], 1, name) \o FindAllLines(c, k + 1, name)

all_records_for_action(c, name) == FindAllLines(c, 1, name)

\* max(float(w) for w in all_records_for_action), 0.0 without any
max_weight_before(c, name) ==
    LET ws == all_records_for_action(c, name)
    IN  IF Len(ws) = 0 THEN 0 ELSE Max({ParseFloat(ws[k]) : k \in 1..Len(ws)})

\* AppendText without the "\n" the written text starts with
AppendText_glued(c, text) ==
    SubSeq(c, 1, Len(c) - 1) \o << c[Len(c)] \o text[2] >> \o SubSeq(text, 3, Len(text))

\* f.write(text) on the file opened with "a"; text is given as text.split("\n")
AppendText(c, text) ==
    SubSeq(c, 1, Len(c) - 1) \o << c[Len(c)] \o text[1] >> \o Tail(text)

\* the two branches of `if date_header in content`
append_record(c, today, row) ==
    IF ContentContains(c, date_header(today))
    THEN AppendText(c, << <<>>, row >>)
    ELSE AppendText(c, << <<>>, <<>>, date_header(today), TABLE_HEADER_ROW, TABLE_SEPARATOR_ROW, row >>)

(***************************************************************************)
(* history.                                                                *)
(***************************************************************************)
\* re.match(r"## (\d{4}-\d{2}-\d{2})", line.strip())
DateMatch(line) ==
    LET s == Strip(line)
    IN  /\ Len(s) >= 13
        /\ SubSeq(s, 1, 3) = <<"#", "#", " ">>
        /\ \A k \in {4, 5, 6, 7, 9, 10, 12, 13} : s[k] \in DigitSet
        /\ s[8] = "-" /\ s[11] = "-"

\* date_match.group(1)
DateOf(line) == SubSeq(Strip(line), 4, 13)

\* s.split('|')
Split(s) ==
    LET bars == {i \in 1..Len(s) : s[i] = "|"}
        n == Cardinality(bars)
        Nth(k) == CHOOSE p \in bars : Cardinality({q \in bars : q < p}) = k - 1
    IN  [k \in 1..(n + 1) |->
            SubSeq(s, IF k = 1 THEN 1 ELSE Nth(k - 1) + 1, IF k = n + 1 THEN Len(s) ELSE Nth(k) - 1)]

\* parts = [p.strip() for p in line.strip().split('|')]
Parts(line) == LET sp == Split(Strip(line)) IN [k \in 1..Len(sp) |-> Strip(sp[k])]

\* the row table.add_row gets for a line that passed the test on current_date,
\* the column delimiter and "---": none when it has not 7 parts, or has an empty
\* action or one holding "Action"
RowOf(current_date, parts) ==
    IF Len(parts) = 7 /\ parts[2] # <<>> /\ ~Contains(parts[2], <<"A", "c", "t", "i", "o", "n">>)
    THEN << [date |-> current_date, action |-> parts[2], sets |-> parts[3], reps |-> parts[4],
             kg |-> parts[5], volume |-> parts[6]] >>
    ELSE <<>>

\* the loop of history over the lines from i on; current_date is <<>> for None
RECURSIVE HistoryFrom(_, _, _)
HistoryFrom(c, i, current_date) ==
    IF i > Len(c) THEN <<>>
    ELSE IF DateMatch(c[i]) THEN HistoryFrom(c, i + 1, DateOf(c[i]))
    ELSE IF current_date # <<>> /\ StartsWith(Strip(c[i]), <<"|">>) /\ ~Contains(c[i], <<"-", "-", "-">>)
    THEN RowOf(current_date, Parts(c[i])) \o HistoryFrom(c, i + 1, current_date)
    ELSE HistoryFrom(c, i + 1, current_date)

\* the rows of the table history prints, in order
history(c) == HistoryFrom(c, 1, <<>>)


(***************************************************************************)
(* The commands.  Their arguments are drawn from small sets: a name in     *)
(* both cases of its letter, a name with a blank after it and a name of    *)
(* the template with a blank before it; a query that matches the actions   *)
(* that hold "squat" in any case, and one that matches none; two workloads *)
(* <<sets, reps, kg>> (kg in halves: 10.0 and 2.5); two days.              *)
(*                                                                         *)
(* Every command is one run of the program: main() and the handler run,    *)
(* the process prints its output and exits with its status.  cmd, out and  *)
(* prev hold the command line, the output and the content the run found,   *)
(* from the handler's end until the process has exited (cmd.op = "none":   *)
(* no run is under way and the next one can start).                        *)
(***************************************************************************)
Names == { <<"a">>, <<"A">>, <<"a", " ">>, <<" ">> \o SQUAT }
Queries == { <<"S", "Q">>, <<"z">> }
Workloads == { <<3, 5, 20>>, <<1, 12, 5>> }
Dates == { <<"2", "0", "2", "5", "-", "1", "0", "-", "2", "7">>,
           <<"2", "0", "2", "5", "-", "1", "0", "-", "2", "8">> }

NoText == <<>>
NoCmd == [op |-> "none", name |-> NoText, reps |-> 0, kg |-> 0, sets |-> 0, today |-> NoText]
NoOut == [exit |-> 0, msg |-> "none", matched |-> NoText, volume |-> 0, max_weight_before |-> 0,
          is_pr |-> FALSE]

\* main(): initialize_storage() has written the template before the first command
Init ==
    /\ doc = Template
    /\ prev = Template
    /\ cmd = NoCmd
    /\ out = NoOut
    /\ steps = 0
    /\ pdoc = <<>> /\ pres = <<>> /\ ppc = "off"
    /\ file = <<>> /\ pc = <<>> /\ arg = <<>> /\ actions = <<>> /\ content = <<>> /\ exit = <<>>

\* action_add without the test `name in actions`
action_add_unchecked(c, name) ==
    IF subn_count(c) > 0
    THEN [content |-> subn(c, name), out |-> [NoOut EXCEPT !.msg = "added"]]
    ELSE [content |-> c, out |-> [NoOut EXCEPT !.exit = 1, !.msg = "no heading"]]

\* action_add: the content it leaves in the file, and its exit status and message
action_add(c, name) ==
    IF InSeq(name, get_actions(c))
    THEN [content |-> c, out |-> [NoOut EXCEPT !.exit = 1, !.msg = "exists"]]
    ELSE IF subn_count(c) > 0
    THEN [content |-> subn(c, name), out |-> [NoOut EXCEPT !.msg = "added"]]
    ELSE [content |-> c, out |-> [NoOut EXCEPT !.exit = 1, !.msg = "no heading"]]

ActionAdd(name) ==
    LET r == action_add(doc, name)
    IN  /\ cmd.op = "none"
        /\ r.content # doc => steps < MaxCmds
        /\ doc' = r.content
        /\ out' = r.out
        /\ steps' = IF r.content # doc THEN steps + 1 ELSE steps
        /\ prev' = doc
        /\ cmd' = [NoCmd EXCEPT !.op = "add", !.name = name]
        /\ UNCHANGED <<parseVars, raceVars>>

\* action_show
ActionShow ==
    /\ cmd.op = "none"
    /\ out' = [NoOut EXCEPT !.msg = IF Len(get_actions(doc)) = 0 THEN "empty" ELSE "table"]
    /\ prev' = doc
    /\ cmd' = [NoCmd EXCEPT !.op = "show"]
    /\ UNCHANGED <<doc, steps, parseVars, raceVars>>

\* record, from the matched action on: the appended row and the PR check
record_matched(c, matched, reps, kg, sets, today) ==
    LET volume == sets * reps * kg
        before == max_weight_before(c, matched)
    IN  [content |-> append_record(c, today, new_record_row(matched, sets, reps, kg, volume)),
         out |-> [exit |-> 0,
                  msg |-> IF kg > before THEN "recorded, PR" ELSE "recorded",
                  matched |-> matched,
                  volume |-> volume,
                  max_weight_before |-> before,
                  is_pr |-> kg > before]]

\* record: the content it leaves in the file, and its exit status and output
record(c, action_name, reps, kg, sets, today) ==
    LET acts == get_actions(c)
        m == Matching(acts, action_name)
    IN  IF m = {}
        THEN [content |-> c, out |-> [NoOut EXCEPT !.exit = 1, !.msg = "not found"]]
        ELSE record_matched(c, acts[Min(m)], reps, kg, sets, today)

Record(action_name, reps, kg, sets, today) ==
    LET r == record(doc, action_name, reps, kg, sets, today)
    IN  /\ cmd.op = "none"
        /\ r.out.exit = 0 => steps < MaxCmds
        /\ doc' = r.content
        /\ out' = r.out
        /\ steps' = IF r.out.exit = 0 THEN steps + 1 ELSE steps
        /\ prev' = doc
        /\ cmd' = [op |-> "record", name |-> action_name, reps |-> reps, kg |-> kg, sets |-> sets,
                   today |-> today]
        /\ UNCHANGED <<parseVars, raceVars>>

\* history
History ==
    /\ cmd.op = "none"
    /\ out' = [NoOut EXCEPT !.msg = IF Len(history(doc)) = 0 THEN "no records" ELSE "table"]
    /\ prev' = doc
    /\ cmd' = [NoCmd EXCEPT !.op = "history"]
    /\ UNCHANGED <<doc, steps, parseVars, raceVars>>

\* the process ends: app() returns or typer.Exit leaves it
ProcessExit ==
    /\ cmd.op # "none"
    /\ cmd' = NoCmd
    /\ out' = NoOut
    /\ prev' = doc
    /\ UNCHANGED <<doc, steps, parseVars, raceVars>>

Next ==
    \/ \E name \in Names : ActionAdd(name)
    \/ ActionShow
    \/ \E q \in Queries, w \in Workloads, today \in Dates : Record(q, w[2], w[3], w[1], today)
    \/ History
    \/ ProcessExit

Spec == Init /\ [][Next]_allVars

(***************************************************************************)
(* get_actions as a function of the file: any text may be in the file      *)
(* (initialize_storage keeps an existing file as it is).  The documents    *)
(* are the sequences of at most MaxDocLines lines out of ParseLines.       *)
(***************************************************************************)
ParseLines ==
    { ACTIONS_HEADING, GOALS_HEADING, BULLET \o <<"a">>, BULLET \o BENCH_PRESS, GOAL_SQUAT, <<>> }

ParseDocs == UNION {[1..n -> ParseLines] : n \in 1..MaxDocLines}

InitParse ==
    /\ pdoc \in ParseDocs
    /\ pres = <<>>
    /\ ppc = "start"
    /\ doc = <<>> /\ prev = <<>> /\ cmd = NoCmd /\ out = NoOut /\ steps = 0
    /\ file = <<>> /\ pc = <<>> /\ arg = <<>> /\ actions = <<>> /\ content = <<>> /\ exit = <<>>

GetActions ==
    /\ ppc = "start"
    /\ pres' = get_actions(pdoc)
    /\ ppc' = "done"
    /\ UNCHANGED <<pdoc, vars, raceVars>>

NextParse == GetActions

SpecParse == InitParse /\ [][NextParse]_allVars

(***************************************************************************)
(* Two runs of `action add` at the same time, on the same file.  A run     *)
(* reads the file in get_actions (line 89), reads it again (line 94) and   *)
(* writes it (line 104); nothing locks the file, so the steps of the two   *)
(* runs interleave.                                                        *)
(***************************************************************************)
Procs == {1, 2}
RaceNames == { <<"a">>, <<"A">>, <<" ", "a">> }

InitRace ==
    /\ file = Template
    /\ pc = [p \in Procs |-> "start"]
    /\ arg = [p \in Procs |-> NoText]
    /\ actions = [p \in Procs |-> <<>>]
    /\ content = [p \in Procs |-> <<>>]
    /\ exit = [p \in Procs |-> 0]
    /\ doc = <<>> /\ prev = <<>> /\ cmd = NoCmd /\ out = NoOut /\ steps = 0
    /\ pdoc = <<>> /\ pres = <<>> /\ ppc = "off"

\* the shell starts `action add <name>`
Start(p, name) ==
    /\ pc[p] = "start"
    /\ arg' = [arg EXCEPT ![p] = name]
    /\ pc' = [pc EXCEPT ![p] = "get_actions"]
    /\ UNCHANGED <<file, actions, content, exit, vars, parseVars>>

\* actions = get_actions(); if name in actions: raise typer.Exit(code=1)
ReadActions(p) ==
    /\ pc[p] = "get_actions"
    /\ actions' = [actions EXCEPT ![p] = get_actions(file)]
    /\ IF InSeq(arg[p], get_actions(file))
       THEN pc' = [pc EXCEPT ![p] = "done"] /\ exit' = [exit EXCEPT ![p] = 1]
       ELSE pc' = [pc EXCEPT ![p] = "read"] /\ UNCHANGED exit
    /\ UNCHANGED <<file, arg, content, vars, parseVars>>

\* content = DATA_FILE.read_text(encoding="utf-8")
ReadContent(p) ==
    /\ pc[p] = "read"
    /\ content' = [content EXCEPT ![p] = file]
    /\ pc' = [pc EXCEPT ![p] = "write"]
    /\ UNCHANGED <<file, arg, actions, exit, vars, parseVars>>

\* subn_input of a run that holds a lock from its read to its write
subn_input_locked(read, current) == current

\* the text re.subn works on: what the run read, whatever the file holds by now
subn_input(read, current) == read

\* re.subn, then DATA_FILE.write_text(new_content) or typer.Exit(code=1)
WriteContent(p) ==
    /\ pc[p] = "write"
    /\ IF subn_count(subn_input(content[p], file)) > 0
       THEN file' = subn(subn_input(content[p], file), arg[p]) /\ UNCHANGED exit
       ELSE exit' = [exit EXCEPT ![p] = 1] /\ UNCHANGED file
    /\ pc' = [pc EXCEPT ![p] = "done"]
    /\ UNCHANGED <<arg, actions, content, vars, parseVars>>

NextRace ==
    \/ \E p \in Procs, name \in RaceNames : Start(p, name)
    \/ \E p \in Procs : ReadActions(p)
    \/ \E p \in Procs : ReadContent(p)
    \/ \E p \in Procs : WriteContent(p)

SpecRace == InitRace /\ [][NextRace]_allVars

(***************************************************************************)
(* The claims.  In Spec they are read in the states where a run has ended  *)
(* and not yet exited: cmd is its command line, prev the content it found, *)
(* doc the content it left and out its output.                             *)
(***************************************************************************)
Last(s) == s[Len(s)]

IsPrefix(s, t) == Len(s) <= Len(t) /\ \A k \in 1..Len(s) : s[k] = t[k]

NoRepeat(s) == \A i, j \in 1..Len(s) : i # j => s[i] # s[j]

Recorded == cmd.op = "record" /\ out.exit = 0

\* C1: an `action add X` that succeeds for an X that listActions() did not hold
\* leaves a listActions() whose first element is X, followed by the list as it
\* was, in the same order.
C1_AddPrepends ==
    (cmd.op = "add" /\ out.exit = 0 /\ ~InSeq(cmd.name, get_actions(prev)))
        => get_actions(doc) = <<cmd.name>> \o get_actions(prev)

\* C2: `action add X` for an X that listActions() holds (the same characters,
\* in the same case) exits with status 1 and leaves the file as it was.
C2_DuplicateRejected ==
    (cmd.op = "add" /\ InSeq(cmd.name, get_actions(prev))) => (out.exit = 1 /\ doc = prev)

\* a duplicate of a name that an earlier `action add` put in the file was refused
C2_Witness ==
    /\ cmd.op = "add" /\ InSeq(cmd.name, get_actions(prev))
    /\ steps >= 1 /\ cmd.name \in {<<"a">>, <<"A">>}
    /\ out.exit = 1 /\ doc = prev

\* C3: record resolves its query to the first element of listActions(), in the
\* order of the file, whose lower-cased text holds the lower-cased query, and
\* writes that element's full name in the new row; when no element matches it
\* exits with status 1 and leaves the file as it was.
C3_RecordResolvesFirstMatch ==
    cmd.op = "record" =>
        LET acts == get_actions(prev)
            hit(k) == Contains(Lower(acts[k]), Lower(cmd.name))
        IN  IF \E k \in 1..Len(acts) : hit(k)
            THEN \E k \in 1..Len(acts) :
                    /\ hit(k) /\ \A j \in 1..(k - 1) : ~hit(j)
                    /\ out.exit = 0
                    /\ out.matched = acts[k]
                    /\ StartsWith(Last(doc), <<"|", " ">> \o acts[k] \o <<" ", "|", " ">>)
                    /\ SubSeq(doc, 1, Len(prev) - 1) = SubSeq(prev, 1, Len(prev) - 1)
            ELSE out.exit = 1 /\ doc = prev

\* a query in another case than the action, which several actions hold, was
\* resolved to an added action
C3_Witness ==
    /\ Recorded
    /\ ~Contains(out.matched, cmd.name)
    /\ Cardinality({k \in 1..Len(get_actions(prev)) :
                        Contains(Lower(get_actions(prev)[k]), Lower(cmd.name))}) >= 2
    /\ out.matched \in Names

\* the cell of a row as record wrote it: the text between two delimiters
\* without the blank on each side
Unpad(cell) ==
    SubSeq(cell, IF Len(cell) >= 1 /\ cell[1] = " " THEN 2 ELSE 1,
                 IF Len(cell) >= 2 /\ cell[Len(cell)] = " " THEN Len(cell) - 1 ELSE Len(cell))

\* the lines of c that are rows whose action column is exactly name
RowsOf(c, name) ==
    {k \in 1..Len(c) : /\ StartsWith(c[k], <<"|">>)
                       /\ Len(Split(c[k])) = 7
                       /\ Unpad(Split(c[k])[2]) = name}

\* the largest weight in the rows of the action name, 0.0 without any
MaxWeightOf(c, name) ==
    IF RowsOf(c, name) = {} THEN 0
    ELSE Max({ParseFloat(Unpad(Split(c[k])[5])) : k \in RowsOf(c, name)})

\* C4: a record that succeeds reports as previousMax the largest weight of the
\* rows already in the file whose action column is exactly the matched action
\* name (0.0 without such a row; the rows of every other action are ignored),
\* and reports isPR exactly when the new weight is greater than previousMax.
C4_PreviousMaxOfSameAction ==
    Recorded =>
        /\ out.max_weight_before = MaxWeightOf(prev, out.matched)
        /\ out.is_pr = (cmd.kg > MaxWeightOf(prev, out.matched))

\* C5: after a record that succeeds, the last element of listHistory() is the
\* new entry: the matched action name, the sets, reps and weight that were
\* passed in, and the volume sets * reps * weight.
C5_RecordRoundTrip ==
    Recorded =>
        /\ Len(history(doc)) >= 1
        /\ Last(history(doc)).action = out.matched
        /\ ParseInt(Last(history(doc)).sets) = cmd.sets
        /\ ParseInt(Last(history(doc)).reps) = cmd.reps
        /\ ParseFloat(Last(history(doc)).kg) = cmd.kg
        /\ ParseFloat(Last(history(doc)).volume) = cmd.sets * cmd.reps * cmd.kg

\* C6: after a record that succeeds on the day D, listHistory() reports the new
\* entry, its last element, with the date D, wherever the file holds a section
\* of D already.
C6_RecordUnderItsDate ==
    Recorded => (Len(history(doc)) >= 1 /\ Last(history(doc)).date = cmd.today)

\* the bullet lines between the first registry heading and the next heading,
\* without their marker
SectionBullets(c) ==
    LET h == Min({k \in 1..Len(c) : c[k] = ACTIONS_HEADING})
        n == Min({k \in (h + 1)..Len(c) : StartsWith(c[k], <<"#">>)})
        bl == SelectSeq(SubSeq(c, h + 1, n - 1), LAMBDA line : StartsWith(line, BULLET))
    IN  [k \in 1..Len(bl) |-> SubSeq(bl[k], 3, Len(bl[k]))]

\* the registry heading is in c, and a heading after it
HasRegistrySection(c) ==
    \E h \in 1..Len(c) : c[h] = ACTIONS_HEADING /\ \E n \in (h + 1)..Len(c) : StartsWith(c[n], <<"#">>)

\* C7: for a document with the registry heading, listActions() is exactly the
\* bullet lines between the registry heading and the next heading, in order
\* and without their marker, and nothing of another section: the empty
\* sequence for a registry section without bullet lines.
C7_ListActionsIsRegistrySection ==
    (ppc = "done" /\ HasRegistrySection(pdoc)) => pres = SectionBullets(pdoc)

\* C8: whatever names `action add` is given, starting from the template,
\* listActions() never holds the same name twice.
C8_RegistryUnique == NoRepeat(get_actions(doc))

RacedOnOneContent(p, q) ==
    /\ p # q
    /\ pc[p] = "done" /\ pc[q] = "done"
    /\ exit[p] = 0 /\ exit[q] = 0
    /\ arg[p] # arg[q]
    /\ content[p] = content[q]

\* C10: without a lock, two `action add` runs with two new names, each reading
\* and writing the whole file in separate steps, can both report success while
\* the registry of the final file holds only one of the two names: that is the
\* outcome whenever both substitute into the same content.
C10_LostUpdate ==
    \A p, q \in Procs :
        RacedOnOneContent(p, q) =>
            InSeq(arg[p], get_actions(file)) # InSeq(arg[q], get_actions(file))

\* both runs reported success and the name of one of them is not in the registry
C10_Witness ==
    \E p, q \in Procs :
        /\ p # q
        /\ pc[p] = "done" /\ pc[q] = "done"
        /\ exit[p] = 0 /\ exit[q] = 0
        /\ arg[p] # arg[q]
        /\ InSeq(arg[p], get_actions(file))
        /\ ~InSeq(arg[q], get_actions(file))

====
